---- MODULE Spec2Model ----
(***************************************************************************)
(* Model of the Palmertech website's contact-form submission gate          *)
(* (src/app.py).  Time is counted in whole seconds.  Strings are sequences *)
(* of one-character strings; a form field that is missing (None) and one   *)
(* that is the empty string are both <<>>, since the code only ever tests  *)
(* them for truthiness.  An optional session value is <<>> (key absent) or *)
(* <<v>> (key present with value v).                                       *)
(***************************************************************************)
EXTENDS Integers, Sequences, FiniteSets, TLC

(* ---------------- program constants ---------------- *)
CONTACT_FORM_TOKEN_TTL == 7200
CONTACT_FORM_SUBMISSION_COOLDOWN == 45
CONTACT_FORM_MIN_MESSAGE_LENGTH == 10

(* ---------------- bounds of the model ---------------- *)
\* number of contact page renders (each draws a fresh token)
MaxRenders == 2
\* number of clock advances
MaxTicks == 3
\* the clock advances by one of these amounts: the first two add up to the
\* cooldown, the last two to the time-to-live
TickSteps ==
    {1, CONTACT_FORM_SUBMISSION_COOLDOWN - 1,
     CONTACT_FORM_TOKEN_TTL - CONTACT_FORM_SUBMISSION_COOLDOWN + 1}

(* ---------------- strings ---------------- *)
Whitespace == {" "}

RECURSIVE lstrip(_)
lstrip(s) == IF s # <<>> /\ Head(s) \in Whitespace THEN lstrip(Tail(s)) ELSE s

RECURSIVE rstrip(_)
rstrip(s) ==
    IF s # <<>> /\ s[Len(s)] \in Whitespace
    THEN rstrip(SubSeq(s, 1, Len(s) - 1))
    ELSE s

\* str.strip()
strip(s) == rstrip(lstrip(s))

\* truthiness of an optional string: None and "" are both falsy
truthy(s) == s # <<>>

Repeat(c, n) == [i \in 1..n |-> c]

(* ---------------- inputs ---------------- *)
\* the hidden "company" field: absent, whitespace only, filled in by a bot
Honeypots == {<<>>, <<" ">>, <<"x">>}

\* submitted form_token: absent, or any token the site has ever handed out
TokenInputs == {<<>>} \cup {<<k>> : k \in 1..MaxRenders}

\* h-captcha-response: absent or present
CaptchaResponses == {<<>>, <<"r">>}

\* what the verification service does when it is called
Verdicts == {"success", "fail", "error"}

\* what the mail provider does when it is called: the class of its final
\* status, or no answer at all
ProviderResults == {"2xx", "3xx", "4xx5xx", "unreachable"}

GoodMessage == Repeat("m", CONTACT_FORM_MIN_MESSAGE_LENGTH)
\* 11 characters as typed, 9 once stripped
PaddedShortMessage == <<" ">> \o Repeat("m", CONTACT_FORM_MIN_MESSAGE_LENGTH - 1) \o <<" ">>

CompleteFields ==
    [name |-> <<"n">>, email |-> <<"e">>, phone |-> <<"p">>,
     message |-> GoodMessage, consent |-> <<"o", "n">>]

\* the visible fields of a contact submission
FieldSets ==
    { CompleteFields,
      [CompleteFields EXCEPT !.name = <<" ">>],
      [CompleteFields EXCEPT !.consent = <<>>],
      [CompleteFields EXCEPT !.message = PaddedShortMessage] }

\* deployments: CAPTCHA keys, the mailer built at start-up, the owner address
Configs ==
    { [site_key |-> TRUE,  secret_key |-> TRUE,  mailer |-> "ok",    owner_recipient |-> <<"o">>],
      [site_key |-> FALSE, secret_key |-> FALSE, mailer |-> "ok",    owner_recipient |-> <<"o">>],
      [site_key |-> TRUE,  secret_key |-> FALSE, mailer |-> "ok",    owner_recipient |-> <<>>],
      [site_key |-> FALSE, secret_key |-> FALSE, mailer |-> "nokey", owner_recipient |-> <<"o">>],
      [site_key |-> TRUE,  secret_key |-> TRUE,  mailer |-> "none",  owner_recipient |-> <<"o">>] }

(* ---------------- state ---------------- *)
VARIABLES
    cfg,        \* CAPTCHA_SETTINGS, mailer, MAIL_SETTINGS: fixed at process start
    now,        \* datetime.now(timezone.utc), in seconds
    ticks,      \* how often the clock has advanced
    issued,     \* how many tokens secrets.token_urlsafe has produced
    session,    \* the visitor's Flask session (the three contact_form_* keys)
    marker_by,  \* outcome of the request that wrote the last-submission marker
    spent,      \* tokens whose submission was delivered
    last,       \* the contact POST being answered: what it carried, the session
                \* it met and the branch that answered it; NoRequest when idle
    quote,      \* the pricing engine: the latest evaluations of pricing.py
    mail,       \* the latest call of a mail dispatch operation and its result
    intake,     \* the latest POST /api/palmertech/requirements and its response
    enquiry     \* the private enquiry link: its use so far and the latest POST

vars == <<cfg, now, ticks, issued, session, marker_by, spent, last,
          quote, mail, intake, enquiry>>

\* the state of the contact form, and the state of the other views
contact_vars == <<cfg, now, ticks, issued, session, marker_by, spent, last>>
other_vars == <<quote, mail, intake, enquiry>>

EmptySession ==
    [contact_form_token |-> <<>>,
     contact_form_issued_at |-> <<>>,
     contact_form_last_submission |-> <<>>]

NoRequest == [outcome |-> "none"]

\* nothing evaluated, called or posted yet
NoCall == [op |-> "none"]

OthersIdle ==
    /\ quote = NoCall
    /\ mail = NoCall
    /\ intake = NoCall
    /\ enquiry = NoCall

Init ==
    /\ cfg \in Configs
    /\ now = 0
    /\ ticks = 0
    /\ issued = 0
    /\ session = EmptySession
    /\ marker_by = "none"
    /\ spent = {}
    /\ last = NoRequest
    /\ OthersIdle

(* ---------------- the gate ---------------- *)
\* a variant of the two pops that leaves the issuance time behind
pop_token_only(s) ==
    [s EXCEPT !.contact_form_token = <<>>]

\* session.pop(CONTACT_FORM_TOKEN_SESSION_KEY), session.pop(CONTACT_FORM_TIME_SESSION_KEY)
pop_token_state(s) ==
    [s EXCEPT !.contact_form_token = <<>>, !.contact_form_issued_at = <<>>]

\* a variant of _issue_contact_form_token that keeps a token already held
issue_contact_form_token_once(s, token, t) ==
    IF s.contact_form_token # <<>> THEN s
    ELSE [s EXCEPT !.contact_form_token = <<token>>, !.contact_form_issued_at = <<t>>]

\* _issue_contact_form_token: a fresh token and the time it was issued
issue_contact_form_token(s, token, t) ==
    [s EXCEPT !.contact_form_token = <<token>>, !.contact_form_issued_at = <<t>>]

\* variants of _validate_contact_form_submission with one check changed
validate_without_cooldown(token, honeypot_value, s, t) ==
    IF truthy(honeypot_value) /\ truthy(strip(honeypot_value))
    THEN "honeypot"
    ELSE IF \/ ~truthy(token)
            \/ ~truthy(s.contact_form_token)
            \/ token # s.contact_form_token
    THEN "token"
    ELSE IF s.contact_form_issued_at = <<>>
    THEN "timestamp"
    ELSE IF t - s.contact_form_issued_at[1] > CONTACT_FORM_TOKEN_TTL
    THEN "expired"
    ELSE "valid"

validate_honeypot_after_token(token, honeypot_value, s, t) ==
    IF \/ ~truthy(token)
       \/ ~truthy(s.contact_form_token)
       \/ token # s.contact_form_token
    THEN "token"
    ELSE IF truthy(honeypot_value) /\ truthy(strip(honeypot_value))
    THEN "honeypot"
    ELSE IF s.contact_form_issued_at = <<>>
    THEN "timestamp"
    ELSE IF t - s.contact_form_issued_at[1] > CONTACT_FORM_TOKEN_TTL
    THEN "expired"
    ELSE IF /\ s.contact_form_last_submission # <<>>
            /\ t - s.contact_form_last_submission[1] < CONTACT_FORM_SUBMISSION_COOLDOWN
    THEN "cooldown"
    ELSE "valid"

validate_ttl_inclusive(token, honeypot_value, s, t) ==
    IF truthy(honeypot_value) /\ truthy(strip(honeypot_value))
    THEN "honeypot"
    ELSE IF \/ ~truthy(token)
            \/ ~truthy(s.contact_form_token)
            \/ token # s.contact_form_token
    THEN "token"
    ELSE IF s.contact_form_issued_at = <<>>
    THEN "timestamp"
    ELSE IF t - s.contact_form_issued_at[1] >= CONTACT_FORM_TOKEN_TTL
    THEN "expired"
    ELSE IF /\ s.contact_form_last_submission # <<>>
            /\ t - s.contact_form_last_submission[1] < CONTACT_FORM_SUBMISSION_COOLDOWN
    THEN "cooldown"
    ELSE "valid"

validate_cooldown_inclusive(token, honeypot_value, s, t) ==
    IF truthy(honeypot_value) /\ truthy(strip(honeypot_value))
    THEN "honeypot"
    ELSE IF \/ ~truthy(token)
            \/ ~truthy(s.contact_form_token)
            \/ token # s.contact_form_token
    THEN "token"
    ELSE IF s.contact_form_issued_at = <<>>
    THEN "timestamp"
    ELSE IF t - s.contact_form_issued_at[1] > CONTACT_FORM_TOKEN_TTL
    THEN "expired"
    ELSE IF /\ s.contact_form_last_submission # <<>>
            /\ t - s.contact_form_last_submission[1] <= CONTACT_FORM_SUBMISSION_COOLDOWN
    THEN "cooldown"
    ELSE "valid"

\* _validate_contact_form_submission: the branch it returns from
validate_contact_form_submission(token, honeypot_value, s, t) ==
    IF truthy(honeypot_value) /\ truthy(strip(honeypot_value))
    THEN "honeypot"
    ELSE IF \/ ~truthy(token)
            \/ ~truthy(s.contact_form_token)
            \/ token # s.contact_form_token
    THEN "token"
    ELSE IF s.contact_form_issued_at = <<>>
    THEN "timestamp"
    ELSE IF t - s.contact_form_issued_at[1] > CONTACT_FORM_TOKEN_TTL
    THEN "expired"
    ELSE IF /\ s.contact_form_last_submission # <<>>
            /\ t - s.contact_form_last_submission[1] < CONTACT_FORM_SUBMISSION_COOLDOWN
    THEN "cooldown"
    ELSE "valid"

\* _verify_hcaptcha up to the call of the verification service
captcha_configured(c) == c.site_key /\ c.secret_key

hcaptcha_calls_service(response_token, c) ==
    captcha_configured(c) /\ truthy(response_token)

\* a variant of _verify_hcaptcha that lets a service error through
verify_hcaptcha_open_on_error(response_token, c, verdict) ==
    IF ~(c.site_key /\ c.secret_key) THEN "unconfigured"
    ELSE IF ~truthy(response_token) THEN "captcha_missing"
    ELSE IF verdict = "error" THEN "passed"
    ELSE IF verdict # "success" THEN "captcha_failed"
    ELSE "passed"

\* _verify_hcaptcha: the branch it returns from, given what the service did
verify_hcaptcha(response_token, c, verdict) ==
    IF ~(c.site_key /\ c.secret_key) THEN "unconfigured"
    ELSE IF ~truthy(response_token) THEN "captcha_missing"
    ELSE IF verdict = "error" THEN "captcha_error"
    ELSE IF verdict # "success" THEN "captcha_failed"
    ELSE "passed"


(* ---------------- mail dispatch ---------------- *)
\* _format_recipients: the addresses left after dropping blank ones
format_recipients(recipients) ==
    SelectSeq(recipients, LAMBDA a : truthy(a) /\ truthy(strip(a)))

\* SendGridMailer._dispatch: the result it returns or the exception it raises.
\* requests raises for no answer, raise_for_status for a 4xx or 5xx status.
dispatch(api_key, provider) ==
    IF ~api_key THEN "SendGridConfigurationError"
    ELSE IF provider \in {"4xx5xx", "unreachable"} THEN "not_delivered"
    ELSE "delivered"

\* SendGridMailer.send_html_email
send_html_email(api_key, recipients, provider) ==
    IF format_recipients(recipients) = <<>> THEN "ValueError"
    ELSE dispatch(api_key, provider)

\* SendGridMailer.send_dynamic_template_email: the template id goes into the
\* payload unexamined
send_dynamic_template_email(api_key, recipient, template_id, provider) ==
    dispatch(api_key, provider)

\* the except clause of the two _safe wrappers
caught(result) ==
    IF result \in {"SendGridConfigurationError", "ValueError"} THEN "not_delivered"
    ELSE result

\* _send_html_email_safe: what it returns, or the exception it lets through
html_email_safe_result(c, recipients, provider) ==
    IF c.mailer = "none" THEN "not_delivered"
    ELSE caught(send_html_email(c.mailer = "ok", recipients, provider))

\* _send_dynamic_email_safe: what it returns, or the exception it lets through
dynamic_email_safe_result(c, recipient, template_id, provider) ==
    IF c.mailer = "none" THEN "not_delivered"
    ELSE IF ~truthy(template_id) THEN "not_delivered"
    ELSE caught(send_dynamic_template_email(c.mailer = "ok", recipient, template_id, provider))

\* _send_html_email_safe as a condition: TRUE when the message was delivered
send_html_email_safe(c, recipients, provider) ==
    html_email_safe_result(c, recipients, provider) = "delivered"

\* _send_dynamic_email_safe as a condition
send_dynamic_email_safe(c, recipient, template_id, provider) ==
    dynamic_email_safe_result(c, recipient, template_id, provider) = "delivered"

(* ---------------- the contact view ---------------- *)
\* the field checks of contact(): the branch taken
required_fields(f) ==
    IF ~(/\ truthy(strip(f.name)) /\ truthy(strip(f.email)) /\ truthy(strip(f.phone))
         /\ truthy(strip(f.message)) /\ truthy(f.consent))
    THEN "fields"
    ELSE IF Len(strip(f.message)) < CONTACT_FORM_MIN_MESSAGE_LENGTH
    THEN "short"
    ELSE "complete"

\* the configuration checks of contact() just before the send
mail_ready(c) ==
    IF c.mailer # "ok" THEN "mailer_unavailable"
    ELSE IF ~truthy(c.owner_recipient) THEN "routing"
    ELSE "ready"

\* contact() on POST, everything before the send: "send" or the branch that
\* answered the request
contact_stage(token, honeypot_value, captcha_response, f, c, s, t, verdict) ==
    LET v == validate_contact_form_submission(token, honeypot_value, s, t)
        h == verify_hcaptcha(captcha_response, c, verdict)
    IN  IF v # "valid" THEN v
        ELSE IF h \notin {"unconfigured", "passed"} THEN h
        ELSE IF required_fields(f) # "complete" THEN required_fields(f)
        ELSE IF mail_ready(c) # "ready" THEN mail_ready(c)
        ELSE "send"

\* the branches of contact() that pop the token and its timestamp
GateRejections == {"honeypot", "token", "timestamp", "expired", "cooldown"}
CaptchaRejections == {"captcha_missing", "captcha_error", "captcha_failed"}
FieldRejections == {"fields", "short"}
ConfigRejections == {"mailer_unavailable", "routing"}
Dispatches == {"sent", "send_failed"}

\* variants of the set of branches that pop the token
pops_token_on_rejection_only(outcome) ==
    outcome \in GateRejections \cup CaptchaRejections

pops_token_not_on_cooldown(outcome) ==
    outcome \in (GateRejections \ {"cooldown"}) \cup CaptchaRejections \cup Dispatches

pops_token_on_field_rejection(outcome) ==
    outcome \in GateRejections \cup CaptchaRejections \cup FieldRejections \cup Dispatches

pops_token_not_on_captcha(outcome) ==
    outcome \in GateRejections \cup Dispatches

contact_pops_token(outcome) ==
    outcome \in GateRejections \cup CaptchaRejections \cup Dispatches

\* a variant that writes the marker only after a delivered send
writes_marker_on_delivery(outcome) == outcome = "sent"

\* the line that writes CONTACT_FORM_LAST_SUBMISSION_KEY runs after the send,
\* whatever the send returned
contact_writes_marker(outcome) == outcome \in Dispatches

\* the session contact() leaves behind
contact_session(s, outcome, t) ==
    LET s1 == IF contact_writes_marker(outcome)
              THEN [s EXCEPT !.contact_form_last_submission = <<t>>]
              ELSE s
    IN  IF contact_pops_token(outcome) THEN pop_token_state(s1) ELSE s1

(* ---------------- actions ---------------- *)
\* GET /contact: render the form with a fresh token
contact_GET ==
    /\ last = NoRequest
    /\ issued < MaxRenders
    /\ issued' = issued + 1
    /\ session' = issue_contact_form_token(session, issued + 1, now)
    /\ UNCHANGED <<cfg, now, ticks, marker_by, spent, last>>
    /\ UNCHANGED other_vars

\* POST /contact, up to its return
contact_POST ==
    /\ last = NoRequest
    /\ \E token \in TokenInputs, honeypot_value \in Honeypots,
          captcha_response \in CaptchaResponses, f \in FieldSets :
        LET v == validate_contact_form_submission(token, honeypot_value, session, now)
            called == v = "valid" /\ hcaptcha_calls_service(captcha_response, cfg)
        IN
        \E verdict \in (IF called THEN Verdicts ELSE {"notcalled"}) :
          LET stage == contact_stage(token, honeypot_value, captcha_response, f,
                                     cfg, session, now, verdict)
          IN
          \E provider \in (IF stage = "send" THEN ProviderResults ELSE {"notcalled"}) :
            LET outcome ==
                    IF stage # "send" THEN stage
                    ELSE IF send_html_email_safe(cfg, <<cfg.owner_recipient>>, provider)
                    THEN "sent" ELSE "send_failed"
            IN
            /\ session' = contact_session(session, outcome, now)
            /\ marker_by' = IF contact_writes_marker(outcome) THEN outcome ELSE marker_by
            /\ spent' = IF outcome = "sent" THEN spent \cup {token[1]} ELSE spent
            /\ last' =
                  [outcome |-> outcome,
                   form_token |-> token,
                   company |-> honeypot_value,
                   captcha_response |-> captcha_response,
                   fields |-> f,
                   verdict |-> verdict,
                   provider |-> provider,
                   before |-> session,
                   prior |-> marker_by,
                   replay |-> token # <<>> /\ token[1] \in spent]
    /\ UNCHANGED <<cfg, now, ticks, issued>>
    /\ UNCHANGED other_vars

\* the redirect every branch of the POST ends with reaches the visitor
contact_redirect ==
    /\ last # NoRequest
    /\ last' = NoRequest
    /\ UNCHANGED <<cfg, now, ticks, issued, session, marker_by, spent>>
    /\ UNCHANGED other_vars

\* time passes between requests
Tick ==
    /\ last = NoRequest
    /\ ticks < MaxTicks
    /\ \E d \in TickSteps : now' = now + d
    /\ ticks' = ticks + 1
    /\ UNCHANGED <<cfg, issued, session, marker_by, spent, last>>
    /\ UNCHANGED other_vars

Next == contact_GET \/ contact_POST \/ contact_redirect \/ Tick

Spec == Init /\ [][Next]_vars

Outcomes ==
    GateRejections \cup CaptchaRejections \cup FieldRejections
        \cup ConfigRejections \cup Dispatches

TypeOK ==
    /\ cfg \in Configs
    /\ issued \in 0..MaxRenders
    /\ ticks \in 0..MaxTicks
    /\ last.outcome \in {"none"} \cup Outcomes

(* ---------------- the pricing engine (src/pricing.py) ---------------- *)
\* Decimal amounts are integers counted in millionths of a pound, which holds
\* every value the rate schedule passes through exactly; the two multipliers
\* are counted in hundredths.
Scale == 1000000
Cent == 10000
BASE_RATE == 25000000
START_YEAR == 2025
BASE_APP_FEE == 25000000
PER_PAGE_FEE == 10000000
MAX_RATE == 40000000
FIRST_YEAR_INCREASE == 105
SUBSEQUENT_INCREASE == 110

\* reference years run from MaxYearsBefore years before START_YEAR to
\* MaxYearsAfter years after it; page counts from -MaxPages to MaxPages
MaxYearsBefore == 2
MaxYearsAfter == 8
MaxPages == 6

Years == (START_YEAR - MaxYearsBefore)..(START_YEAR + MaxYearsAfter)
PageCounts == (0 - MaxPages)..MaxPages

\* Decimal * Decimal for an amount and a multiplier in hundredths
times(amount, hundredths) ==
    (amount \div 100) * hundredths + ((amount % 100) * hundredths) \div 100

\* _quantise: two decimal places, ROUND_HALF_UP (amounts here are never negative)
quantise(value) == ((value + Cent \div 2) \div Cent) * Cent

max0(n) == IF n > 0 THEN n ELSE 0

\* variants of the compounding loop of current_rate
RECURSIVE compound_uncapped(_, _)
compound_uncapped(rate, n) ==
    IF n = 0 THEN quantise(rate) ELSE compound_uncapped(times(rate, SUBSEQUENT_INCREASE), n - 1)

RECURSIVE compound_one_more(_, _)
compound_one_more(rate, n) ==
    IF n < 0 THEN quantise(IF rate <= MAX_RATE THEN rate ELSE MAX_RATE)
    ELSE LET r == times(rate, SUBSEQUENT_INCREASE)
         IN  IF r >= MAX_RATE THEN quantise(MAX_RATE) ELSE compound_one_more(r, n - 1)

\* the loop of current_rate: n more rounds of compounding, then the clamp
RECURSIVE compound(_, _)
compound(rate, n) ==
    IF n = 0 THEN quantise(IF rate <= MAX_RATE THEN rate ELSE MAX_RATE)
    ELSE LET r == times(rate, SUBSEQUENT_INCREASE)
         IN  IF r >= MAX_RATE THEN quantise(MAX_RATE) ELSE compound(r, n - 1)

\* current_rate(reference_date), by the year of the reference date
current_rate(year) ==
    LET years_elapsed == max0(year - START_YEAR)
        remaining_years == years_elapsed - 1
    IN  IF years_elapsed = 0 THEN quantise(BASE_RATE)
        ELSE IF years_elapsed = 1 THEN quantise(times(BASE_RATE, FIRST_YEAR_INCREASE))
        ELSE compound(times(BASE_RATE, SUBSEQUENT_INCREASE), max0(remaining_years - 1))

\* a variant of maintenance_cost without the argument check
maintenance_cost_unchecked(page_count) ==
    [raises |-> "none", value |-> quantise(max0(BASE_APP_FEE + PER_PAGE_FEE * page_count))]

\* maintenance_cost(page_count): the exception it raises, or its value
maintenance_cost(page_count) ==
    IF page_count < 0 THEN [raises |-> "ValueError", value |-> 0]
    ELSE [raises |-> "none", value |-> quantise(BASE_APP_FEE + PER_PAGE_FEE * page_count)]

\* pricing_summary(page_count): the exception it lets through, if any
pricing_summary(page_count) == maintenance_cost(page_count).raises

\* the engine as the application starts: the rate of some reference year
InitPricing ==
    /\ cfg \in Configs
    /\ now = 0 /\ ticks = 0 /\ issued = 0
    /\ session = EmptySession /\ marker_by = "none" /\ spent = {} /\ last = NoRequest
    /\ \E y \in Years :
         quote = [op |-> "start", year |-> y, rate |-> current_rate(y),
                  earlier_year |-> y, earlier_rate |-> current_rate(y),
                  page_count |-> 0, cost |-> maintenance_cost(0)]
    /\ mail = NoCall /\ intake = NoCall /\ enquiry = NoCall

\* current_rate is evaluated again, at the same or a later reference date
evaluate_current_rate ==
    /\ \E y \in Years :
         /\ y >= quote.year
         /\ quote' = [quote EXCEPT !.op = "current_rate",
                                   !.earlier_year = quote.year,
                                   !.earlier_rate = quote.rate,
                                   !.year = y,
                                   !.rate = current_rate(y)]
    /\ UNCHANGED <<contact_vars, mail, intake, enquiry>>

\* maintenance_cost is evaluated for some page count
evaluate_maintenance_cost ==
    /\ \E n \in PageCounts :
         quote' = [quote EXCEPT !.op = "maintenance_cost",
                                !.page_count = n,
                                !.cost = maintenance_cost(n)]
    /\ UNCHANGED <<contact_vars, mail, intake, enquiry>>

NextPricing == evaluate_current_rate \/ evaluate_maintenance_cost

SpecPricing == InitPricing /\ [][NextPricing]_vars

(* ---------------- the mail dispatch operations on their own ---------------- *)
RecipientLists == {<<>>, << <<" ">> >>, << <<"a">> >>, << <<>>, <<"a">> >>}
TemplateIds == {<<>>, <<"t">>}

\* whether the call gets as far as the provider
reaches_provider(op, c, recipients, template_id) ==
    /\ c.mailer = "ok"
    /\ op \in {"send_html_email", "send_html_email_safe"} => format_recipients(recipients) # <<>>
    /\ op = "send_dynamic_email_safe" => truthy(template_id)

mail_result(op, c, recipients, template_id, provider) ==
    CASE op = "send_html_email" -> send_html_email(c.mailer = "ok", recipients, provider)
      [] op = "send_dynamic_template_email" ->
            send_dynamic_template_email(c.mailer = "ok", Head(recipients), template_id, provider)
      [] op = "send_html_email_safe" -> html_email_safe_result(c, recipients, provider)
      [] op = "send_dynamic_email_safe" ->
            dynamic_email_safe_result(c, Head(recipients), template_id, provider)

InitMail ==
    /\ cfg \in Configs
    /\ now = 0 /\ ticks = 0 /\ issued = 0
    /\ session = EmptySession /\ marker_by = "none" /\ spent = {} /\ last = NoRequest
    /\ quote = NoCall /\ mail = NoCall /\ intake = NoCall /\ enquiry = NoCall

\* one call of a mail operation, with what the provider does if it is reached
mail_call(op, lists) ==
    /\ \E recipients \in lists, template_id \in TemplateIds :
         \E provider \in (IF reaches_provider(op, cfg, recipients, template_id)
                          THEN ProviderResults ELSE {"notcalled"}) :
           mail' = [op |-> op, recipients |-> recipients, template_id |-> template_id,
                    provider |-> provider,
                    result |-> mail_result(op, cfg, recipients, template_id, provider)]
    /\ UNCHANGED <<contact_vars, quote, intake, enquiry>>

\* the mailer's own methods exist once initialise_mailer has built the mailer
call_send_html_email ==
    cfg.mailer # "none" /\ mail_call("send_html_email", RecipientLists)

call_send_dynamic_template_email ==
    cfg.mailer # "none" /\ mail_call("send_dynamic_template_email", RecipientLists \ {<<>>})

call_send_html_email_safe == mail_call("send_html_email_safe", RecipientLists)

call_send_dynamic_email_safe == mail_call("send_dynamic_email_safe", RecipientLists \ {<<>>})

NextMail ==
    \/ call_send_html_email
    \/ call_send_dynamic_template_email
    \/ call_send_html_email_safe
    \/ call_send_dynamic_email_safe

SpecMail == InitMail /\ [][NextMail]_vars

(* ---------------- numbers typed into the forms ---------------- *)
DigitChars == <<"0", "1", "2", "3", "4", "5", "6", "7", "8", "9">>

is_digit(c) == \E i \in 1..Len(DigitChars) : DigitChars[i] = c

digit(c) == (CHOOSE i \in 1..Len(DigitChars) : DigitChars[i] = c) - 1

all_digits(s) == s # <<>> /\ \A i \in 1..Len(s) : is_digit(s[i])

RECURSIVE natural(_)
natural(s) ==
    IF s = <<>> THEN 0
    ELSE natural(SubSeq(s, 1, Len(s) - 1)) * 10 + digit(s[Len(s)])

RECURSIVE ndigits(_)
ndigits(n) == IF n < 10 THEN 1 ELSE 1 + ndigits(n \div 10)

RECURSIVE pow10(_)
pow10(n) == IF n = 0 THEN 1 ELSE 10 * pow10(n - 1)

is_signed(s) == s # <<>> /\ Head(s) \in {"+", "-"}
unsigned(s) == IF is_signed(s) THEN Tail(s) ELSE s

\* Python's int(text): surrounding whitespace and one sign are accepted
int(text) ==
    LET t == strip(text)
    IN  IF all_digits(unsigned(t))
        THEN [raises |-> "none",
              value |-> IF Head(t) = "-" THEN 0 - natural(unsigned(t)) ELSE natural(unsigned(t))]
        ELSE [raises |-> "ValueError", value |-> 0]

\* _parse_positive_int
parse_positive_int(value, default) ==
    LET parsed == int(value)
    IN  IF parsed.raises # "none" THEN default
        ELSE IF parsed.value >= 0 THEN parsed.value ELSE default

\* Python's Decimal(text) for text without a decimal point: a sign, then
\* digits with an optional exponent, or NaN, or Inf. The value of a finite
\* one is coefficient x 10^exponent.
Decimal(text) ==
    LET t == strip(text)
        body == unsigned(t)
        negative == is_signed(t) /\ Head(t) = "-"
        marks == {i \in 1..Len(body) : body[i] \in {"e", "E"}}
        at == CHOOSE i \in marks : TRUE
        number(kind, coefficient, exponent) ==
            [kind |-> kind, negative |-> negative,
             coefficient |-> coefficient, exponent |-> exponent]
    IN  IF body = <<"N", "a", "N">> THEN number("nan", 0, 0)
        ELSE IF body = <<"I", "n", "f">> THEN number("inf", 0, 0)
        ELSE IF all_digits(body) THEN number("finite", natural(body), 0)
        ELSE IF /\ Cardinality(marks) = 1
                /\ all_digits(SubSeq(body, 1, at - 1))
                /\ all_digits(SubSeq(body, at + 1, Len(body)))
             THEN number("finite", natural(SubSeq(body, 1, at - 1)),
                         natural(SubSeq(body, at + 1, Len(body))))
        ELSE number("invalid", 0, 0)

\* a Decimal compared with zero: d >= 0
not_below_zero(d) == d.kind \in {"finite", "inf"} /\ (~d.negative \/ (d.kind = "finite" /\ d.coefficient = 0))

\* _parse_positive_decimal: None, the parsed value, or the InvalidOperation
\* that comparing NaN raises outside the try block
parse_positive_decimal(value) ==
    IF value = <<>> THEN [raises |-> "none", none |-> TRUE, parsed |-> Decimal(value)]
    ELSE IF Decimal(value).kind = "invalid"
         THEN [raises |-> "none", none |-> TRUE, parsed |-> Decimal(value)]
    ELSE IF Decimal(value).kind = "nan"
         THEN [raises |-> "InvalidOperation", none |-> FALSE, parsed |-> Decimal(value)]
    ELSE [raises |-> "none",
          none |-> ~not_below_zero(Decimal(value)),
          parsed |-> Decimal(value)]

\* the context precision of Python's decimal module
DecimalPrecision == 28

\* _quantise_currency(rate * estimated_hours), in pence: quantize raises
\* InvalidOperation for an infinity and for a result of more digits than the
\* precision
development_total(rate, hours) ==
    IF hours.kind # "finite" THEN [raises |-> "InvalidOperation", pence |-> 0]
    ELSE IF hours.coefficient = 0 THEN [raises |-> "none", pence |-> 0]
    ELSE IF ndigits((rate \div Cent) * hours.coefficient) + hours.exponent > DecimalPrecision
         THEN [raises |-> "InvalidOperation", pence |-> 0]
    ELSE [raises |-> "none",
          pence |-> (rate \div Cent) * hours.coefficient * pow10(hours.exponent)]

(* ---------------- the requirements and private enquiry forms ---------------- *)
\* deployments of the two forms: the mailer, the requirements template and
\* recipient, the owner address
FormConfigs ==
    { [site_key |-> FALSE, secret_key |-> FALSE, mailer |-> m, owner_recipient |-> o,
       requirements_template_id |-> t, requirements_recipient |-> r] :
         m \in {"ok", "nokey", "none"}, o \in {<<>>, <<"o">>},
         t \in {<<>>, <<"t">>}, r \in {<<>>, <<"r">>} }

\* the years in which a request is answered: before and after the rate cap
FormYears == {START_YEAR, START_YEAR + MaxYearsAfter}

HoursInputs ==
    { <<>>, <<"x">>, <<"-", "1">>, <<"0">>, <<"4">>, <<"1", "e", "2">>,
      <<"1", "e", "3", "0">>, <<"N", "a", "N">>, <<"I", "n", "f">> }

PageInputs == { <<>>, <<"x">>, <<"-", "1">>, <<"0">>, <<"3">> }

CompleteRequirements ==
    [name |-> <<"n">>, email |-> <<"c">>, project_type |-> <<"p">>,
     requirements |-> <<"r">>, estimated_hours |-> <<"4">>, page_count |-> <<"3">>]

\* submissions: complete, one text field empty or blank, every pairing of
\* the two numeric fields
RequirementForms ==
    {CompleteRequirements}
    \cup {[CompleteRequirements EXCEPT ![f] = v] :
            f \in {"name", "email", "project_type", "requirements"}, v \in {<<>>, <<" ">>}}
    \cup {[CompleteRequirements EXCEPT !.estimated_hours = h, !.page_count = p] :
            h \in HoursInputs, p \in PageInputs}

required_requirement_fields ==
    {"name", "email", "project_type", "requirements", "estimated_hours", "page_count"}

\* the fields of a submission that are empty once stripped
missing(form) == {f \in required_requirement_fields : ~truthy(strip(form[f]))}

\* whether a _send_html_email_safe call gets as far as the provider
html_reaches_provider(c, recipients) ==
    c.mailer = "ok" /\ format_recipients(recipients) # <<>>

\* whether a _send_dynamic_email_safe call gets as far as the provider
dynamic_reaches_provider(c, template_id) ==
    c.mailer = "ok" /\ truthy(template_id)

\* what the provider can do for a call
provider_choices(reached) == IF reached THEN ProviderResults ELSE {"notcalled"}

attempt(to, provider, delivered) ==
    [to |-> to, provider |-> provider, delivered |-> delivered]

\* a variant of the two sends of submit_requirements that stops after a
\* failed admin notification
requirements_sends_until_failure(c, email, p1, p2) ==
    IF send_dynamic_email_safe(c, c.requirements_recipient, c.requirements_template_id, p1)
    THEN << attempt("admin", p1, TRUE),
            attempt("client", p2,
                    send_dynamic_email_safe(c, email, c.requirements_template_id, p2)) >>
    ELSE << attempt("admin", p1, FALSE) >>

\* the two sends of submit_requirements: admin_sent, then client_sent
requirements_sends(c, email, p1, p2) ==
    << attempt("admin", p1,
               send_dynamic_email_safe(c, c.requirements_recipient,
                                       c.requirements_template_id, p1)),
       attempt("client", p2,
               send_dynamic_email_safe(c, email, c.requirements_template_id, p2)) >>

delivered_all(attempts, n) ==
    Len(attempts) = n /\ \A i \in 1..n : attempts[i].delivered

response(status, http, attempts, estimate) ==
    [status |-> status, http |-> http, attempts |-> attempts, estimate |-> estimate]

NoEstimate == [development_total |-> -1, maintenance_total |-> -1, page_count |-> -1]

\* the body of submit_requirements for one submission answered in one year
requirements_response(c, form, year, p1, p2) ==
    LET page_count == parse_positive_int(strip(form.page_count), 0)
        estimated_hours == parse_positive_decimal(strip(form.estimated_hours))
        total == development_total(current_rate(year), estimated_hours.parsed)
        sends == requirements_sends(c, strip(form.email), p1, p2)
    IN  IF missing(form) # {} THEN response("error", 400, <<>>, NoEstimate)
        ELSE IF estimated_hours.raises # "none" THEN response("fault", 500, <<>>, NoEstimate)
        ELSE IF estimated_hours.none THEN response("error", 400, <<>>, NoEstimate)
        ELSE IF total.raises # "none" THEN response("fault", 500, <<>>, NoEstimate)
        ELSE IF ~truthy(c.requirements_template_id) \/ ~truthy(c.requirements_recipient)
             THEN response("error", 503, <<>>, NoEstimate)
        ELSE IF c.mailer # "ok" THEN response("error", 503, <<>>, NoEstimate)
        ELSE IF delivered_all(sends, 2)
             THEN response("success", 200, sends,
                           [development_total |-> total.pence,
                            maintenance_total |-> maintenance_cost(page_count).value \div Cent,
                            page_count |-> page_count])
        ELSE response("warning", 202, sends, NoEstimate)

\* whether submit_requirements gets as far as its two sends
requirements_sends_reached(c, form, year) ==
    requirements_response(c, form, year, "2xx", "2xx").status \in {"success", "warning"}

\* the signed link handed out (dumps of a fixed payload: every link carries
\* the same token), and a token that does not verify
Links == {"link"}
EnquiryTokens == Links \cup {"forged"}

\* serializer.loads(token): the signature is all that is examined
loads(token) == token \in Links

EnquiryEmails == {<<>>, <<" ">>, <<"c">>}

\* enquiry submissions: the customer's address and the page count
EnquiryForms == [email : EnquiryEmails, page_count : PageInputs]

\* generate_enquiry_pdf: the exception it raises, if any
generate_enquiry_pdf(data) ==
    LET parsed == int(data.page_count)
        page_count == IF parsed.raises # "none" THEN 0 ELSE parsed.value
    IN  pricing_summary(page_count)

\* the two sends of private_enquiry: owner_email_sent, then, for a submitted
\* address, customer_email_sent
enquiry_sends(c, email, p1, p2) ==
    << attempt("owner", p1, send_html_email_safe(c, <<c.owner_recipient>>, p1)) >>
    \o (IF truthy(email)
        THEN << attempt("customer", p2, send_html_email_safe(c, <<email>>, p2)) >>
        ELSE <<>>)

answer(outcome, flash, attempts) ==
    [outcome |-> outcome, flash |-> flash, attempts |-> attempts]

\* the POST branch of private_enquiry
enquiry_post(c, token, form, p1, p2) ==
    LET sends == enquiry_sends(c, form.email, p1, p2)
    IN  IF ~loads(token) THEN answer("redirect", "invalid", <<>>)
        ELSE IF ~truthy(c.owner_recipient) THEN answer("redirect", "unavailable", <<>>)
        ELSE IF generate_enquiry_pdf(form) # "none"
             THEN answer("fault", generate_enquiry_pdf(form), <<>>)
        ELSE IF delivered_all(sends, 2) THEN answer("redirect", "both", sends)
        ELSE IF sends[1].delivered THEN answer("redirect", "owner_only", sends)
        ELSE answer("redirect", "undelivered", sends)

\* whether the POST gets as far as its sends
enquiry_sends_reached(c, token, form) ==
    enquiry_post(c, token, form, "2xx", "2xx").attempts # <<>>

NoEnquiry == [op |-> "none", used |-> {}]

InitForms ==
    /\ cfg \in FormConfigs
    /\ now = 0 /\ ticks = 0 /\ issued = 0
    /\ session = EmptySession /\ marker_by = "none" /\ spent = {} /\ last = NoRequest
    /\ quote = NoCall /\ mail = NoCall
    /\ intake = NoCall
    /\ enquiry = NoEnquiry

FormsIdle == intake = NoCall /\ enquiry.op = "none"

\* POST /api/palmertech/requirements
submit_requirements ==
    /\ FormsIdle
    /\ \E form \in RequirementForms, year \in FormYears :
         \E p1 \in provider_choices(requirements_sends_reached(cfg, form, year)
                                    /\ dynamic_reaches_provider(cfg, cfg.requirements_template_id)),
            p2 \in provider_choices(requirements_sends_reached(cfg, form, year)
                                    /\ dynamic_reaches_provider(cfg, cfg.requirements_template_id)) :
           intake' = [op |-> "submit_requirements", form |-> form, year |-> year,
                      response |-> requirements_response(cfg, form, year, p1, p2)]
    /\ UNCHANGED <<contact_vars, quote, mail, enquiry>>

\* GET /enquiry/<token>
private_enquiry_GET ==
    /\ FormsIdle
    /\ \E token \in EnquiryTokens :
         enquiry' = [op |-> "GET", token |-> token, used |-> enquiry.used,
                     answer |-> IF loads(token) THEN answer("form", "none", <<>>)
                                ELSE answer("redirect", "invalid", <<>>)]
    /\ UNCHANGED <<contact_vars, quote, mail, intake>>

\* POST /enquiry/<token>
private_enquiry_POST ==
    /\ FormsIdle
    /\ \E token \in EnquiryTokens, form \in EnquiryForms :
         \E p1 \in provider_choices(enquiry_sends_reached(cfg, token, form)
                                    /\ html_reaches_provider(cfg, <<cfg.owner_recipient>>)),
            p2 \in provider_choices(enquiry_sends_reached(cfg, token, form)
                                    /\ html_reaches_provider(cfg, <<form.email>>)) :
           enquiry' = [op |-> "POST", token |-> token, form |-> form,
                       replay |-> token \in enquiry.used,
                       used |-> IF enquiry_post(cfg, token, form, p1, p2).flash
                                     \in {"both", "owner_only"}
                                THEN enquiry.used \cup {token} ELSE enquiry.used,
                       answer |-> enquiry_post(cfg, token, form, p1, p2)]
    /\ UNCHANGED <<contact_vars, quote, mail, intake>>

\* the response has gone out; the next request can be taken
forms_respond ==
    /\ ~FormsIdle
    /\ intake' = NoCall
    /\ enquiry' = [op |-> "none", used |-> enquiry.used]
    /\ UNCHANGED <<contact_vars, quote, mail>>

NextForms ==
    \/ submit_requirements
    \/ private_enquiry_GET
    \/ private_enquiry_POST
    \/ forms_respond

SpecForms == InitForms /\ [][NextForms]_vars

(* ---------------- the request being answered ---------------- *)
Posted == last # NoRequest

\* the honeypot field as submitted, and once stripped
HoneypotEmpty == last.company = <<>>
HoneypotBlank == strip(last.company) = <<>>

HeldToken == last.before.contact_form_token # <<>>

TokenMatches ==
    /\ last.form_token # <<>>
    /\ last.form_token = last.before.contact_form_token

\* seconds since the matching token was issued
TokenAge == now - last.before.contact_form_issued_at[1]

TokenValid ==
    /\ TokenMatches
    /\ last.before.contact_form_issued_at # <<>>
    /\ TokenAge <= CONTACT_FORM_TOKEN_TTL

HadMarker == last.before.contact_form_last_submission # <<>>

\* seconds since the last-submission marker
SinceMarker == now - last.before.contact_form_last_submission[1]

CooldownElapsed == HadMarker => SinceMarker >= CONTACT_FORM_SUBMISSION_COOLDOWN

CaptchaPassed ==
    \/ ~(cfg.site_key /\ cfg.secret_key)
    \/ last.captcha_response # <<>> /\ last.verdict = "success"

FieldsPresent ==
    /\ \A k \in {"name", "email", "phone", "message", "consent"} : last.fields[k] # <<>>
    /\ Len(last.fields.message) >= CONTACT_FORM_MIN_MESSAGE_LENGTH

FieldsAccepted ==
    /\ \A k \in {"name", "email", "phone", "message"} : strip(last.fields[k]) # <<>>
    /\ last.fields.consent # <<>>
    /\ Len(strip(last.fields.message)) >= CONTACT_FORM_MIN_MESSAGE_LENGTH

MailReady == cfg.mailer = "ok" /\ cfg.owner_recipient # <<>>

DispatchAttempted == last.outcome \in Dispatches

NoDispatch == last.outcome \notin Dispatches /\ last.provider = "notcalled"

TokenStateCleared ==
    /\ session.contact_form_token = <<>>
    /\ session.contact_form_issued_at = <<>>

TokenStateUnchanged ==
    /\ session.contact_form_token = last.before.contact_form_token
    /\ session.contact_form_issued_at = last.before.contact_form_issued_at

MarkerUnchanged ==
    session.contact_form_last_submission = last.before.contact_form_last_submission

(* ---------------- claims ---------------- *)

\* C1 (as stated): an email dispatch is attempted only if all six gate checks
\* passed on that request: honeypot empty, submitted token equal to the
\* session token, token within its TTL, cooldown elapsed, CAPTCHA passed or
\* not configured, required fields present with a message of at least 10
\* characters.
C1_DispatchOnlyWithEmptyHoneypot ==
    Posted /\ DispatchAttempted =>
        /\ HoneypotEmpty
        /\ TokenValid
        /\ CooldownElapsed
        /\ CaptchaPassed
        /\ FieldsPresent

\* C1 (amended): an email dispatch is attempted only if all six gate checks
\* passed on that request, the honeypot check passing for a field that is
\* empty or holds only whitespace.
C1_DispatchOnlyAfterSixChecks ==
    Posted /\ DispatchAttempted =>
        /\ HoneypotBlank
        /\ TokenValid
        /\ CooldownElapsed
        /\ CaptchaPassed
        /\ FieldsPresent
        /\ FieldsAccepted

\* C1 witness: a dispatch after a CAPTCHA verdict, in a session whose
\* cooldown had to have elapsed
C1_Witness ==
    /\ Posted /\ DispatchAttempted
    /\ HadMarker
    /\ last.verdict = "success"

\* C2 (as stated): a POST whose honeypot field is non-empty is always
\* rejected, with no CAPTCHA call and no email dispatch.
C2_NonEmptyHoneypotRejected ==
    Posted /\ ~HoneypotEmpty =>
        /\ last.outcome \in GateRejections
        /\ last.verdict = "notcalled"
        /\ NoDispatch

\* C2 (amended): a POST whose honeypot field holds a non-whitespace character
\* is always rejected at the honeypot check, with no CAPTCHA call and no
\* email dispatch, whatever the token, the session and the other fields are.
C2_FilledHoneypotRejected ==
    Posted /\ ~HoneypotBlank =>
        /\ last.outcome = "honeypot"
        /\ last.verdict = "notcalled"
        /\ NoDispatch

\* C2 witness: a filled honeypot together with a valid, unexpired token and
\* otherwise acceptable fields
C2_Witness ==
    /\ Posted /\ ~HoneypotBlank
    /\ TokenValid /\ CooldownElapsed /\ FieldsAccepted
    /\ last.outcome = "honeypot"

\* C3: a matching token issued more than the TTL ago is rejected; a matching
\* token issued within the TTL passes the token and expiry checks.
C3_TokenExpiry ==
    Posted /\ TokenMatches /\ last.before.contact_form_issued_at # <<>> =>
        /\ TokenAge > CONTACT_FORM_TOKEN_TTL =>
              /\ last.outcome \in {"honeypot", "expired"}
              /\ NoDispatch
        /\ TokenAge <= CONTACT_FORM_TOKEN_TTL /\ HoneypotBlank =>
              last.outcome \notin {"honeypot", "token", "timestamp", "expired"}

\* C3 witness: a matching token rejected one second past its time-to-live
C3_Witness ==
    /\ Posted /\ TokenMatches
    /\ TokenAge = CONTACT_FORM_TOKEN_TTL + 1
    /\ last.outcome = "expired"

\* C4 (as stated): after a successful submission, a later POST with a fresh
\* valid token is rejected by the cooldown check unless more than 45 seconds
\* have elapsed since that submission.
C4_RejectedUnlessCooldownExceeded ==
    Posted /\ HoneypotBlank /\ TokenValid /\ HadMarker /\ last.prior = "sent" =>
        (SinceMarker <= CONTACT_FORM_SUBMISSION_COOLDOWN => last.outcome = "cooldown")

\* C4 (amended): in a session whose last-submission marker is set, a POST
\* with a fresh valid token is rejected by the cooldown check exactly when
\* fewer than 45 seconds have elapsed since the marker; from 45 seconds on it
\* passes the cooldown check, and is sent when the remaining checks pass and
\* the provider accepts the mail.
C4_CooldownWindow ==
    Posted /\ HoneypotBlank /\ TokenValid /\ HadMarker =>
        /\ last.outcome = "cooldown" <=> SinceMarker < CONTACT_FORM_SUBMISSION_COOLDOWN
        /\ /\ SinceMarker >= CONTACT_FORM_SUBMISSION_COOLDOWN
           /\ CaptchaPassed /\ FieldsAccepted /\ MailReady
           => /\ DispatchAttempted
              /\ last.provider = "2xx" => last.outcome = "sent"

\* C4 witness: a second submission delivered exactly 45 seconds after a
\* delivered one
C4_Witness ==
    /\ Posted /\ HadMarker /\ last.prior = "sent"
    /\ SinceMarker = CONTACT_FORM_SUBMISSION_COOLDOWN
    /\ last.outcome = "sent"

\* C5: after a POST whose dispatch succeeded the session token and its
\* timestamp are cleared, and a later POST replaying that token is rejected at
\* the token check (unless the honeypot check rejects it first) and
\* dispatches no email.
C5_TokenOneTime ==
    Posted =>
        /\ last.outcome = "sent" => TokenStateCleared
        /\ last.replay =>
              /\ last.outcome \in {"honeypot", "token"}
              /\ HoneypotBlank => last.outcome = "token"
              /\ NoDispatch

\* C5 witness: the token of a delivered submission replayed, with no page
\* render in between, after the cooldown has elapsed
C5_Witness ==
    /\ Posted /\ last.replay
    /\ ~HeldToken
    /\ HoneypotBlank /\ CooldownElapsed /\ FieldsAccepted
    /\ last.outcome = "token"

\* C6 (as stated): a POST writes the last-submission marker only when its
\* dispatch was delivered; a POST whose dispatch was not delivered leaves the
\* marker unchanged.
C6_MarkerOnlyOnDelivery ==
    Posted /\ last.outcome # "sent" => MarkerUnchanged

\* C6 (amended): a POST writes the last-submission marker exactly when it
\* reaches the email dispatch, whether the dispatch was delivered or not; a
\* POST rejected before the dispatch leaves the marker unchanged.
C6_MarkerOnEveryDispatch ==
    Posted =>
        /\ DispatchAttempted => session.contact_form_last_submission = <<now>>
        /\ ~DispatchAttempted => MarkerUnchanged

\* C6 witness: a dispatch that was not delivered wrote the marker
C6_Witness ==
    /\ Posted /\ last.outcome = "send_failed"
    /\ ~HadMarker
    /\ session.contact_form_last_submission = <<now>>

\* C7 (as stated): a POST rejected by the cooldown check leaves the session
\* token and its issuance timestamp unchanged.
C7_CooldownKeepsToken ==
    Posted /\ last.outcome = "cooldown" => TokenStateUnchanged

\* C7 (amended): a POST rejected by the cooldown check clears the session
\* token and its issuance timestamp and leaves the last-submission marker
\* unchanged.
C7_CooldownClearsToken ==
    Posted /\ last.outcome = "cooldown" =>
        /\ TokenStateCleared
        /\ MarkerUnchanged

\* C7 witness: a valid token rejected inside the cooldown window
C7_Witness ==
    /\ Posted /\ last.outcome = "cooldown"
    /\ TokenValid /\ HeldToken
    /\ session.contact_form_token = <<>>

\* C8 (as stated): a rejected POST clears the session token state only when
\* rejected at the honeypot, token or expiry stage; a rejection at the CAPTCHA
\* stage or at field validation leaves it unchanged.
C8_OnlyStages123Clear ==
    Posted /\ ~DispatchAttempted =>
        /\ ~TokenStateUnchanged =>
              last.outcome \in {"honeypot", "token", "timestamp", "expired"}
        /\ last.outcome \in CaptchaRejections \cup FieldRejections =>
              TokenStateUnchanged

\* C8 (amended): a rejected POST clears the session token state when it is
\* rejected at the honeypot, token, expiry, cooldown or CAPTCHA stage; a
\* rejection at field validation or at the mail configuration checks leaves
\* the session token and its timestamp unchanged.
C8_ClearingStages ==
    Posted /\ ~DispatchAttempted =>
        /\ last.outcome \in GateRejections \cup CaptchaRejections => TokenStateCleared
        /\ last.outcome \in FieldRejections \cup ConfigRejections => TokenStateUnchanged

\* C8 witness: a CAPTCHA rejection that cleared a held token
C8_Witness ==
    /\ Posted /\ last.outcome \in CaptchaRejections
    /\ HeldToken
    /\ TokenStateCleared

C10_CaptchaFailsOpenOnlyUnconfigured ==
    Posted =>
        /\ ~(cfg.site_key /\ cfg.secret_key) =>
              /\ last.verdict = "notcalled"
              /\ last.outcome \notin CaptchaRejections
        /\ (cfg.site_key /\ cfg.secret_key) /\ HoneypotBlank /\ TokenValid /\ CooldownElapsed =>
              /\ last.captcha_response = <<>> => last.outcome = "captcha_missing"
              /\ last.verdict = "fail" => last.outcome = "captcha_failed"
              /\ last.verdict = "error" => last.outcome = "captcha_error"
              /\ last.captcha_response # <<>> => last.verdict # "notcalled"
        /\ last.outcome \in CaptchaRejections => NoDispatch
        /\ (cfg.site_key /\ cfg.secret_key) /\ DispatchAttempted => last.verdict = "success"

\* C10 witness: a verification-service error rejected an otherwise acceptable
\* submission
C10_Witness ==
    /\ Posted /\ (cfg.site_key /\ cfg.secret_key)
    /\ last.verdict = "error"
    /\ FieldsAccepted /\ MailReady
    /\ last.outcome = "captcha_error"

\* the rate schedule in pence, year by year since START_YEAR
ScheduledPence(years_elapsed) ==
    CASE years_elapsed = 0 -> 2500
      [] years_elapsed = 1 -> 2625
      [] years_elapsed = 2 -> 2750
      [] years_elapsed = 3 -> 3025
      [] years_elapsed = 4 -> 3328
      [] years_elapsed = 5 -> 3660
      [] OTHER -> 4000

\* C11: current_rate is monotonically non-decreasing in the elapsed years
\* and never exceeds the cap MAX_RATE.
C11_RateMonotoneAndCapped ==
    /\ quote.earlier_year <= quote.year
    /\ quote.earlier_rate <= quote.rate
    /\ quote.rate <= MAX_RATE

\* C11 witness: two evaluations on either side of the year the cap is reached
C11_Witness ==
    /\ quote.op = "current_rate"
    /\ quote.earlier_year < quote.year
    /\ quote.earlier_rate < MAX_RATE
    /\ quote.rate = MAX_RATE

\* C12: current_rate follows the stated schedule for every reference year:
\* the base rate up to START_YEAR, base x 1.05 one year on, then base x 1.10
\* compounded by x 1.10 per further year, clamped at the cap, each rounded
\* half-up to 2 decimals.
C12_RateSchedule ==
    /\ quote.year <= START_YEAR => quote.rate = BASE_RATE
    /\ quote.rate = ScheduledPence(max0(quote.year - START_YEAR)) * Cent

\* C12 witness: the fourth year, whose compounded value 33.275 rounds up
C12_Witness ==
    /\ quote.op = "current_rate"
    /\ quote.year = START_YEAR + 4
    /\ quote.rate = 3328 * Cent

\* C13: maintenance_cost fails with an invalid-argument error for every
\* negative page count and otherwise returns base app fee + per-page fee x
\* page count; maintenance_cost(0) is the base app fee, maintenance_cost(5)
\* is 75.00.
C13_MaintenanceCost ==
    /\ quote.page_count < 0 => quote.cost.raises = "ValueError"
    /\ quote.page_count >= 0 =>
          /\ quote.cost.raises = "none"
          /\ quote.cost.value = (25 + 10 * quote.page_count) * Scale
    /\ quote.page_count = 0 => quote.cost.value = BASE_APP_FEE
    /\ quote.page_count = 5 => quote.cost.value = 75 * Scale

\* C13 witness: a negative page count was refused
C13_Witness ==
    /\ quote.op = "maintenance_cost"
    /\ quote.page_count = -1
    /\ quote.cost.raises = "ValueError"

MailCalled == mail # NoCall
MailerMethods == {"send_html_email", "send_dynamic_template_email"}

\* the provider was unreachable or answered with a status outside 2xx
ProviderFailed == mail.provider \in {"unreachable", "3xx", "4xx5xx"}
ApiKeyAbsent == cfg.mailer # "ok"
TemplateIdAbsent ==
    /\ mail.op \in {"send_dynamic_template_email", "send_dynamic_email_safe"}
    /\ mail.template_id = <<>>

\* C14: send_html_email and send_dynamic_template_email return
\* not-delivered and never raise when the provider is unreachable, returns a
\* non-2xx status, or the API key or template id is absent.
C14_MailerFailsClosed ==
    MailCalled /\ mail.op \in MailerMethods
        /\ format_recipients(mail.recipients) # <<>>
        /\ (ProviderFailed \/ ApiKeyAbsent \/ TemplateIdAbsent)
        => mail.result = "not_delivered"

IntakeAnswered == intake # NoCall
EnquiryPosted == enquiry.op = "POST"

\* estimated_hours as submitted is not a non-negative number
HoursNotNonNegative == ~not_below_zero(Decimal(strip(intake.form.estimated_hours)))

RequirementsMailUnconfigured ==
    \/ ~truthy(cfg.requirements_template_id)
    \/ ~truthy(cfg.requirements_recipient)
    \/ cfg.mailer # "ok"

\* C15: the requirements endpoint answers error/400 for a missing required
\* field or an estimated_hours that is not a non-negative number, otherwise
\* error/503 for a missing template id, recipient or mailer configuration,
\* otherwise success/200 with an estimate when both emails were delivered,
\* otherwise warning/202; no email is attempted on a 400 or 503.
C15_RequirementsResponses ==
    IntakeAnswered =>
        LET r == intake.response
        IN  IF missing(intake.form) # {} \/ HoursNotNonNegative
            THEN r.status = "error" /\ r.http = 400 /\ r.attempts = <<>>
            ELSE IF RequirementsMailUnconfigured
            THEN r.status = "error" /\ r.http = 503 /\ r.attempts = <<>>
            ELSE IF delivered_all(r.attempts, 2)
            THEN r.status = "success" /\ r.http = 200 /\ r.estimate # NoEstimate
            ELSE r.status = "warning" /\ r.http = 202

\* the request got as far as its outbound emails
IntakeSent == IntakeAnswered /\ intake.response.status \in {"success", "warning"}
EnquirySent ==
    EnquiryPosted /\ enquiry.answer.flash \in {"both", "owner_only", "undelivered"}

exactly_one_delivered(attempts) ==
    Cardinality({i \in 1..Len(attempts) : attempts[i].delivered}) = 1

\* C16: in both flows the owner/admin notification and the customer/client
\* receipt are each attempted at most once per request, the second whatever
\* the result of the first (in the enquiry flow: whenever an address was
\* submitted), and a request with exactly one delivered is reported
\* differently from one with both delivered.
C16_TwoSendsIndependent ==
    /\ IntakeSent =>
          LET a == intake.response.attempts
          IN  /\ Len(a) = 2 /\ a[1].to = "admin" /\ a[2].to = "client"
              /\ intake.response.status = "success" <=> delivered_all(a, 2)
              /\ exactly_one_delivered(a) => intake.response.status = "warning"
    /\ EnquirySent =>
          LET a == enquiry.answer.attempts
          IN  /\ a[1].to = "owner"
              /\ Len(a) = IF truthy(enquiry.form.email) THEN 2 ELSE 1
              /\ Len(a) = 2 => a[2].to = "customer"
              /\ enquiry.answer.flash = "both" <=> delivered_all(a, 2)
              /\ exactly_one_delivered(a) => enquiry.answer.flash # "both"

\* C16 witness: the admin notification failed and the client receipt was
\* still sent and delivered
C16_Witness ==
    /\ IntakeSent
    /\ ~intake.response.attempts[1].delivered
    /\ intake.response.attempts[2].delivered
    /\ intake.response.status = "warning"

\* C17: a POST presenting a link token through which an enquiry was already
\* submitted is not accepted and sends no email.
C17_LinkOneTime ==
    EnquiryPosted /\ enquiry.replay =>
        /\ enquiry.answer.attempts = <<>>
        /\ enquiry.answer.flash = "invalid"

\* C18: every POST to the enquiry form with a valid signed token ends in a
\* redirect with a flash message, whatever the form holds.
C18_EnquiryPostNeverFaults ==
    EnquiryPosted /\ loads(enquiry.token) =>
        /\ enquiry.answer.outcome = "redirect"
        /\ enquiry.answer.flash # "none"

\* C19: the session token and its issuance time are both present or both
\* absent in every reachable session, and no POST is rejected for a matching
\* token whose issuance time is missing.
C19_TokenAndTimestampTogether ==
    /\ (session.contact_form_token = <<>>) <=> (session.contact_form_issued_at = <<>>)
    /\ Posted =>
          /\ (last.before.contact_form_token = <<>>)
                <=> (last.before.contact_form_issued_at = <<>>)
          /\ last.outcome # "timestamp"

\* C19 witness: a matching token went through the issuance-time check
C19_Witness ==
    /\ Posted /\ HoneypotBlank /\ TokenMatches
    /\ last.before.contact_form_issued_at # <<>>
    /\ last.outcome \notin {"honeypot", "token", "timestamp"}

\* the POST carried the token of a render before the most recent one
EarlierToken == last.form_token # <<>> /\ last.form_token[1] \in 1..(issued - 1)

\* C20: the token a session holds is that of the most recent render, and a
\* POST carrying the token of an earlier render is rejected at the token
\* check, which clears the token state.
C20_OnlyLatestTokenValid ==
    /\ session.contact_form_token # <<>> => session.contact_form_token = <<issued>>
    /\ Posted /\ HoneypotBlank /\ EarlierToken =>
          /\ last.outcome = "token"
          /\ TokenStateCleared

\* C20 witness: after a second render the first render's token was posted
\* while the second was held
C20_Witness ==
    /\ Posted /\ HoneypotBlank /\ EarlierToken
    /\ last.before.contact_form_token = <<issued>>
    /\ last.outcome = "token"
    /\ TokenStateCleared

====
